---- MODULE Spec2Model ----
(***************************************************************************)
(* backblaze-b2-upload-any: the token pool (createBorrowFn / attempt /      *)
(* pRetry) and the large-file orchestrator (doLargeUpload / startWorker /   *)
(* doPart / fail), modelled as one state machine over the promise           *)
(* continuations of the single JavaScript event loop.  One action is one    *)
(* macrotask: the completion of an external call or timer together with     *)
(* every promise continuation that runs before the next external event.     *)
(***************************************************************************)
EXTENDS Integers, Sequences, FiniteSets, TLC

\* ------------------------------------------------------------------ bounds
MaxParts == 3
MaxConc == 2
MaxFaults == 1
MaxBorrowFaults == 1
NumBorrowers == 2
NumLive == 1
MaxPoolFaults == 2
MaxTokens == 4
Cap == 3
MaxSize == 7
MaxDirectFaults == 2
MaxBytes == 4
AfterEnd == 1
MaxPending == 2
MaxHashFaults == 1
MaxFailures == 2

\* ------------------------------------------------------- program constants
Retries == 9
\* partSize limits of uploadOptionsSchema, in units of 1,000,000 bytes.
MinPartSize == 5
MaxPartSize == 5000
\* An option the caller left out.
Absent == -2
NaN == -1

Callers == 1..MaxParts
\* pool keys: one createBorrowFn closure (one queue) per bucket id and per large file
Pools == {"bucketA", "bucketB"}
\* the bucket the concurrent borrow calls of SpecBorrow and SpecLive share
BorrowPools == {"bucketA"}
FilePool == "file"
AllPools == Pools \cup {FilePool}

VARIABLES
    queue,       \* createBorrowFn: const queue = [] (one per pool key); 0 is an undefined entry
    b,           \* one record per borrow call: position in attempt()/pRetry, token held, retries left
    reauthMemo,  \* memoize(() => o.authorize(), {promise: true, maxAge}): "none" | "inflight" | "cached"
    waiters,     \* attempts awaiting the in-flight reauth(), in await order
    authorizing, \* number of o.authorize() calls reauth() started that have not settled
    owner,       \* for each credential in use, the pool key whose getTokenFn issued it
    faults,      \* number of failures the environment has injected so far
    conc,        \* o.concurrency
    nparts,      \* totalParts of the source adapter
    serial,      \* TRUE: next() calls settle in call order (syncPromise); FALSE: in any order
    upc,         \* position of doLargeUpload: off/starting/running/finishing/cancelling/resolved/rejected
    available,   \* let available = o.concurrency (NaN after the end-of-parts marker)
    nextq,       \* outstanding si.next() calls in call order: the part number each yields, 0 for undefined
    piece,       \* the adapter's piece counter
    hashes,      \* const hashes = []: one entry per dispatched part, in push order
    waits,       \* pending Promise.all(hashes) calls: the length of hashes each one captured
    partHashes,  \* the partSha1Array handed to finishLargeFile
    uerr,        \* the error caught by doLargeUpload / the error the upload call rejected with
    destroyed,   \* number of si.destroy() calls
    failCalled,  \* fail() has been invoked
    firstFail,   \* the first failure of a step after startLargeFile
    cancels,     \* number of cancelLargeFile calls
    finishes,    \* number of finishLargeFile calls
    nextCalls,   \* number of si.next() calls made
    up,          \* upload(options): the options, the data source and the position of the call
    ad           \* a large-file adapter: its source, its counters and its next() calls

vars == <<queue, b, reauthMemo, waiters, authorizing, owner, faults, conc, nparts, serial, upc, available,
          nextq, piece, hashes, waits, partHashes, uerr, destroyed, failCalled,
          firstFail, cancels, finishes, nextCalls, up, ad>>

Inc(x) == IF x < Cap THEN x + 1 ELSE x

SetMin(s) == CHOOSE x \in s : \A y \in s : x <= y

RemoveAt(s, i) == [j \in 1..(Len(s) - 1) |-> IF j < i THEN s[j] ELSE s[j + 1]]

\* The state as one value, so that the continuations of one macrotask compose.
St == [queue |-> queue, b |-> b, reauthMemo |-> reauthMemo, waiters |-> waiters,
       authorizing |-> authorizing, owner |-> owner,
       upc |-> upc, available |-> available, nextq |-> nextq, piece |-> piece,
       hashes |-> hashes, waits |-> waits, partHashes |-> partHashes, uerr |-> uerr,
       destroyed |-> destroyed, failCalled |-> failCalled, firstFail |-> firstFail,
       cancels |-> cancels, finishes |-> finishes, nextCalls |-> nextCalls, up |-> up,
       ad |-> ad]

Apply(S) ==
    \E T \in {S} :
        /\ queue' = T.queue
        /\ b' = T.b
        /\ reauthMemo' = T.reauthMemo
        /\ waiters' = T.waiters
        /\ authorizing' = T.authorizing
        /\ owner' = T.owner
        /\ upc' = T.upc
        /\ available' = T.available
        /\ nextq' = T.nextq
        /\ piece' = T.piece
        /\ hashes' = T.hashes
        /\ waits' = T.waits
        /\ partHashes' = T.partHashes
        /\ uerr' = T.uerr
        /\ destroyed' = T.destroyed
        /\ failCalled' = T.failCalled
        /\ firstFail' = T.firstFail
        /\ cancels' = T.cancels
        /\ finishes' = T.finishes
        /\ nextCalls' = T.nextCalls
        /\ up' = T.up
        /\ ad' = T.ad
        /\ UNCHANGED <<conc, nparts, serial>>

\* ------------------------------------------------------------------ errors
\* An error as attempt()'s catch block reads it: err.config present, err.config.url
\* equal to token.uploadUrl, err.response.status (0: no response), err.code, the 400
\* message prefix, and parseInt(retry-after) (-1: NaN).
ErrInfo(e) ==
    LET base == [config |-> TRUE, urlMatch |-> TRUE, status |-> 0, code |-> "",
                 multi |-> FALSE, retryAfter |-> -1]
    IN CASE e = "e401" -> [base EXCEPT !.status = 401]
         [] e = "e503" -> [base EXCEPT !.status = 503]
         [] e = "e503ra" -> [base EXCEPT !.status = 503, !.retryAfter = 5]
         [] e = "eCONNREFUSED" -> [base EXCEPT !.code = "ECONNREFUSED"]
         [] e = "eTIMEDOUT" -> [base EXCEPT !.code = "ETIMEDOUT"]
         [] e = "e400multi" -> [base EXCEPT !.status = 400, !.multi = TRUE]
         [] e = "e400" -> [base EXCEPT !.status = 400]
         [] e = "eCONNRESET" -> [base EXCEPT !.code = "ECONNRESET"]
         [] e = "eEAI_AGAIN" -> [base EXCEPT !.code = "EAI_AGAIN"]
         [] e = "e500" -> [base EXCEPT !.status = 500]
         [] e = "e429" -> [base EXCEPT !.status = 429]
         [] e = "e429ra" -> [base EXCEPT !.status = 429, !.retryAfter = 5]
         [] e = "e403" -> [base EXCEPT !.status = 403]
         [] e = "eObtain" -> [base EXCEPT !.config = FALSE, !.urlMatch = FALSE]
         [] e = "eOtherUrl" -> [base EXCEPT !.urlMatch = FALSE, !.status = 503]
         [] OTHER -> base

\* Failures of work(token) on the upload request, and of the credential-issuing call.
WorkErrors == {"e401", "e503", "e503ra", "eCONNREFUSED", "eTIMEDOUT", "e400multi", "e400",
               "eCONNRESET", "eEAI_AGAIN", "e500", "e429", "e429ra", "e403", "eObtain",
               "eOtherUrl"}
IssueErrors == {"e401", "e503", "e500", "e429ra", "e403"}
PartErrors == {"e401", "e503", "e429ra", "e403"}
PartIssueErrors == {"e500"}

\* err.message: the https client's "Request failed with status code N" for a
\* response, the socket error's or timeout's own message otherwise.
Msg(e) ==
    CASE e \in {"e503", "e503ra", "eOtherUrl"} -> "status 503"
      [] e \in {"e400", "e400multi"} -> "status 400"
      [] e \in {"e429", "e429ra"} -> "status 429"
      [] OTHER -> e

\* ------------------------------ upload(options) and doStandardUpload (src/log.js)
\* The options as the caller passed them: bucketId and fileName tell whether a
\* string was given, kind is what o.data is ("missing": not given), the numbers
\* are Absent when the key was left out.  Sizes, partSize and largeFileThreshold
\* are counted in units of 1,000,000 bytes.
NoOptions == [bucketId |-> FALSE, fileName |-> FALSE, kind |-> "missing",
              concurrency |-> Absent, largeFileThreshold |-> Absent, partSize |-> Absent]

\* No upload() call: the state of the specifications that start below upload().
NoUpload == [pc |-> "off", caller |-> 0]

\* An upload() call about to be made.  size is the number of bytes of the data source and chunks the sizes of the
\* chunks a stream source has yet to emit; readBufferSize is the probe's counter;
\* reads counts the chunks read from o.data and stats the fs.stat calls; made
\* counts the si.makeStream() calls of the borrow worker, live holds those not yet
\* destroyed, data is the one the running attempt sends and attempts counts the
\* upload requests; caller is the borrow call of doStandardUpload (0: none).
Upload0 == [pc |-> "call", o |-> NoOptions, size |-> 0, chunks |-> <<>>,
            readBufferSize |-> 0, reads |-> 0, stats |-> 0, err |-> "none",
            caller |-> 0, made |-> 0, live |-> {}, data |-> 0, attempts |-> 0]

\* A next() call of a large-file adapter: where it stands (queued, reading,
\* hashing, or settled as part, undefined or rejected), the part number it took,
\* the bytes its part holds, the reader's pos, the part's hash, and how many
\* earlier calls were unsettled when it was made.
Call0 == [st |-> "queued", number |-> 0, buf |-> <<>>, pos |-> 0, hash |-> 0, ahead |-> 0]

\* No adapter under observation.
NoAdapter == [kind |-> "off"]

\* An adapter before it is set up.  data holds the bytes of the source; source the
\* chunks the stream adapter's source has yet to emit; detail the state of the
\* file adapter's getFileSize promise; nchunks and first the number of chunks the
\* stream came in and the size of the first; lookahead and threshold what the
\* stream probe buffered and stopped at; calls the next() calls in call order.
Adapter0 == [kind |-> "off", data |-> <<>>, partSize |-> 0, source |-> <<>>,
             nchunks |-> 0, first |-> 0, lookahead |-> 0, threshold |-> 0,
             detail |-> "none", piece |-> 0, done |-> FALSE, calls |-> <<>>]

\* The worker doStandardUpload hands to borrow, up to its await:
\* const data = si.makeStream(); httpsRequest(token.uploadUrl, ..., data).
\* (Workers of other borrow calls are opaque to the model.)
workerFn(S, c) ==
    IF S.up.caller # c THEN S
    ELSE LET d == S.up.made + 1
         IN [S EXCEPT !.up.made = d, !.up.live = @ \cup {d}, !.up.data = d,
                      !.up.attempts = @ + 1]

\* Mutant: the worker has no finally block.
workerFinally_leak(S, c) ==
    S

\* finally { data.destroy(); }: runs when httpsRequest settled, either way.
workerFinally(S, c) ==
    IF S.up.caller # c THEN S
    ELSE [S EXCEPT !.up.live = @ \ {S.up.data}]

\* "return borrowBucketUploadToken(...)": the upload call settles as the borrow
\* call did.
uploadSettled(S, c) ==
    IF S.b[c].pc = "ok" THEN [S EXCEPT !.up.pc = "resolved"]
    ELSE [S EXCEPT !.up.pc = "rejected", !.up.err = S.b[c].err]

\* ------------------------------------------------- doLargeUpload (src/log.js)
\* Mutant: the catch block rethrows without calling cancelLargeFile.
reject_noCancel(S, e) ==
    IF S.upc = "running"
    THEN [S EXCEPT !.upc = "rejected", !.uerr = e]
    ELSE S

\* reject(err) of the promise doLargeUpload awaits: a no-op once the promise is
\* settled; otherwise the await throws into the catch block, which calls
\* cancelLargeFile({ fileId }).
reject(S, e) ==
    IF S.upc = "running"
    THEN [S EXCEPT !.upc = "cancelling", !.uerr = e, !.cancels = Inc(@)]
    ELSE S

\* resolve(values): a no-op once settled; otherwise doLargeUpload goes on to call
\* finishLargeFile({ fileId, partSha1Array: partHashes }).
resolve(S, vals) ==
    IF S.upc = "running"
    THEN [S EXCEPT !.upc = "finishing", !.partHashes = vals, !.finishes = Inc(@)]
    ELSE S

\* function fail(err) { si.destroy(); reject(err); }
fail(S, e) ==
    reject([S EXCEPT !.destroyed = Inc(@), !.failCalled = TRUE,
                     !.firstFail = IF @ = "none" THEN e ELSE @], e)

\* Promise.all(hashes).then(resolve, fail): each call captured the entries hashes
\* held when it was made and resolves once all of them are fulfilled.
checkAll(S) ==
    LET done == {w \in S.waits : \A i \in 1..w : S.hashes[i].val # "pending"}
    IN IF done = {} THEN S
       ELSE resolve([S EXCEPT !.waits = @ \ done],
                    [i \in 1..SetMin(done) |-> S.hashes[i]])

\* si.next() of the file and buffer adapters: piece >= totalParts yields undefined,
\* otherwise part number piece + 1.  The stream adapter numbers its parts the same
\* way, in the order syncPromise runs the calls.
siNext(S) ==
    IF S.piece >= nparts
    THEN [S EXCEPT !.nextq = Append(@, 0), !.nextCalls = @ + 1]
    ELSE [S EXCEPT !.nextq = Append(@, S.piece + 1), !.piece = @ + 1, !.nextCalls = @ + 1]

\* Mutant: the slot is not taken ("available -= 1" dropped).
startWorker_noDecrement(S) ==
    IF S.available > 0 THEN siNext(S) ELSE S

\* startWorker() up to its await: if (available > 0) { available -= 1; await si.next() }
startWorker(S) ==
    IF S.available > 0
    THEN siNext([S EXCEPT !.available = @ - 1])
    ELSE S

\* "available += 1" is a no-op on NaN.
release(S) ==
    IF S.available = NaN THEN S ELSE [S EXCEPT !.available = @ + 1]

\* doPart(part)'s promise fulfilled with the hash: .then(v => { available += 1;
\* startWorker(); return v; }) fulfils the hashes entry.
partDone(S, c) ==
    checkAll([startWorker(release(S)) EXCEPT !.hashes[c].val = "hash"])

\* borrow(...) rejected: doPart's .catch(fail) runs fail(err) and fulfils doPart's
\* promise with undefined, so the same .then handler runs next.
partFailed(S, c, e) ==
    checkAll([startWorker(release(fail(S, e))) EXCEPT !.hashes[c].val = "undef"])

\* The continuation of a settled borrow call: part uploads continue in doPart
\* (only the outcome of the call outlives it), other borrow calls have no
\* continuation in the model.
borrowSettled(S, c) ==
    LET S1 == [S EXCEPT !.b[c].last = "none", !.b[c].held = FALSE]
    IN IF S.up.caller = c THEN uploadSettled(S, c)
       ELSE IF S.b[c].part = 0 THEN S
       ELSE IF S.b[c].pc = "ok" THEN partDone(S1, c)
       ELSE partFailed(S1, c, S.b[c].err)


\* ------------------------------------------- createBorrowFn (src/log.js 39-131)
\* No error recorded yet; a recorded message is a pair <<message, occurrences>>.
NoErrors == {}

Count(errs, m) == IF \E r \in errs : r[1] = m THEN (CHOOSE r \in errs : r[1] = m)[2] ELSE 0

\* The history of one borrow call, kept for the calls of an observed caller (on):
\* attempt() invocations, credentials issued to it, credentials it dropped, work
\* failures with a plain 503, whether the running attempt's credential was newly
\* issued, whether a 401 or a retry-after made it re-attempt outside p-retry,
\* whether every failure so far was a retryable one handed to p-retry, and the
\* error of the latest failed attempt.
NoHist == [on |-> FALSE, tries |-> 0, issued |-> 0, dropped |-> 0, w503 |-> 0,
           fresh |-> FALSE, uncharged |-> FALSE, plain |-> TRUE, lastErr |-> "none"]

\* last is the branch of the catch block the latest failed attempt took and held
\* tells whether that attempt had a credential (work failed, not getTokenFn).
\* errs and main are the retry operation's record of the errors it was handed:
\* how often each message occurred and the error mainError() returns.
Caller0 == [pc |-> "idle", pool |-> "none", token |-> 0, left |-> 0, err |-> "none",
            part |-> 0, last |-> "none", held |-> FALSE, errs |-> NoErrors,
            main |-> "none", hist |-> NoHist]

Observed0 == [Caller0 EXCEPT !.hist.on = TRUE]

note(S, c, h) == IF S.b[c].hist.on THEN [S EXCEPT !.b[c].hist = h] ELSE S

noteAttempt(S, c) ==
    note(S, c, [S.b[c].hist EXCEPT !.tries = IF @ < Retries + 2 THEN @ + 1 ELSE @,
                                   !.fresh = FALSE])

InUse(S, t) ==
    \/ \E c \in DOMAIN S.b : S.b[c].token = t
    \/ \E p \in DOMAIN S.queue : \E i \in 1..Len(S.queue[p]) : S.queue[p][i] = t

\* The credential getUploadUrl / getUploadPartUrl returns: one that exists nowhere
\* in the client (identifiers of credentials no longer referenced are reused).
FreshToken(S) == CHOOSE t \in 1..MaxTokens : ~InUse(S, t)

\* Mutant: the head of the queue is read but not removed (queue[0] for queue.shift()).
attempt_peek(S0, c) ==
    LET S == noteAttempt(S0, c)
        q == S.queue[S.b[c].pool]
        tok == IF q = <<>> THEN 0 ELSE Head(q)
    IN IF tok # 0
       THEN workerFn([S EXCEPT !.b[c].pc = "work", !.b[c].token = tok], c)
       ELSE [S EXCEPT !.b[c].pc = "gettoken", !.b[c].token = 0]

\* Mutant: one queue for every pool key (const queue = [] outside createBorrowFn).
attempt_sharedQueue(S0, c) ==
    LET S == noteAttempt(S0, c)
        p == "bucketA"
        q == S.queue[p]
        tok == IF q = <<>> THEN 0 ELSE Head(q)
        q1 == IF q = <<>> THEN q ELSE Tail(q)
    IN IF tok # 0
       THEN workerFn([S EXCEPT !.queue[p] = q1, !.b[c].pc = "work", !.b[c].token = tok], c)
       ELSE [S EXCEPT !.queue[p] = q1, !.b[c].pc = "gettoken", !.b[c].token = 0]

\* Mutant: the queue is not consulted, every attempt asks for a new credential.
attempt_alwaysIssue(S0, c) ==
    LET S == noteAttempt(S0, c)
    IN [S EXCEPT !.b[c].pc = "gettoken", !.b[c].token = 0]

\* attempt() up to its first await: token = queue.shift() || await getTokenFn(),
\* then workerFn(token) when the queue supplied a token.
attempt(S0, c) ==
    LET S == noteAttempt(S0, c)
        p == S.b[c].pool
        q == S.queue[p]
        tok == IF q = <<>> THEN 0 ELSE Head(q)
        q1 == IF q = <<>> THEN q ELSE Tail(q)
    IN IF tok # 0
       THEN workerFn([S EXCEPT !.queue[p] = q1, !.b[c].pc = "work", !.b[c].token = tok], c)
       ELSE [S EXCEPT !.queue[p] = q1, !.b[c].pc = "gettoken", !.b[c].token = 0]

\* operation.retry(err) of the retry package p-retry is built on: the error is
\* recorded, and mainError() is the error whose message was recorded most often,
\* the later one when two messages are level.
operationRetry(S, c, e) ==
    LET m == Msg(e)
        n == Count(S.b[c].errs, m) + 1
        top == IF S.b[c].main = "none" THEN 0 ELSE Count(S.b[c].errs, Msg(S.b[c].main))
    IN [S EXCEPT !.b[c].errs = {r \in @ : r[1] # m} \cup {<<m, n>>},
                 !.b[c].main = IF n >= top THEN e ELSE @]

\* Mutant: the AbortError is treated like any other error.
pRetryCatch_noAbort(S, c, e, abort) ==
    LET R == operationRetry(S, c, e)
    IN IF S.b[c].left = 0
       THEN borrowSettled([S EXCEPT !.b[c].pc = "failed", !.b[c].err = R.b[c].main,
                                    !.b[c].token = 0, !.b[c].left = 0,
                                    !.b[c].errs = NoErrors, !.b[c].main = "none"], c)
       ELSE [R EXCEPT !.b[c].pc = "backoff", !.b[c].left = @ - 1, !.b[c].token = 0]

\* pRetry(attempt, { retries: 9 }) when attempt() rejects: an AbortError rejects the
\* borrow call at once with the wrapped error; any other error is retried after a
\* backoff while retries are left, and when none is the call rejects with
\* operation.mainError().
pRetryCatch(S, c, e, abort) ==
    LET R == operationRetry(S, c, e)
    IN IF abort
       THEN borrowSettled([S EXCEPT !.b[c].pc = "failed", !.b[c].err = e,
                                    !.b[c].token = 0, !.b[c].left = 0,
                                    !.b[c].errs = NoErrors, !.b[c].main = "none"], c)
       ELSE IF S.b[c].left = 0
       THEN borrowSettled([S EXCEPT !.b[c].pc = "failed", !.b[c].err = R.b[c].main,
                                    !.b[c].token = 0, !.b[c].left = 0,
                                    !.b[c].errs = NoErrors, !.b[c].main = "none"], c)
       ELSE [R EXCEPT !.b[c].pc = "backoff", !.b[c].left = @ - 1, !.b[c].token = 0]

\* Mutant: reauth is not memoized, every 401 starts an authorize() call.
reauth_noMemo(S, c) ==
    [S EXCEPT !.reauthMemo = "inflight", !.waiters = Append(@, c),
              !.authorizing = Inc(@), !.b[c].pc = "reauth", !.b[c].token = 0]

\* Mutant: the re-attempt after a 401 uses up one retry.
reauth_counted(S, c) ==
    LET S1 == [S EXCEPT !.b[c].left = IF @ > 0 THEN @ - 1 ELSE 0]
    IN IF S1.reauthMemo = "cached"
       THEN attempt([S1 EXCEPT !.b[c].token = 0], c)
       ELSE [S1 EXCEPT !.reauthMemo = "inflight", !.waiters = Append(@, c),
                       !.authorizing = IF S1.reauthMemo = "inflight" THEN @ ELSE Inc(@),
                       !.b[c].pc = "reauth", !.b[c].token = 0]

\* await reauth(); return attempt();  reauth is memoized: a cached result resolves
\* at once, an in-flight call is shared, otherwise authorize() is called.
reauth(S, c) ==
    IF S.reauthMemo = "cached"
    THEN attempt([S EXCEPT !.b[c].token = 0], c)
    ELSE [S EXCEPT !.reauthMemo = "inflight", !.waiters = Append(@, c),
                   !.authorizing = IF S.reauthMemo = "inflight" THEN @ ELSE Inc(@),
                   !.b[c].pc = "reauth", !.b[c].token = 0]

\* Mutant: status 429 is missing from the retry conditions.
Retryable_no429(i) ==
    \/ i.status = 503 \/ i.code = "ECONNREFUSED" \/ i.code = "ETIMEDOUT"
    \/ (i.status = 400 /\ i.multi)
    \/ i.code = "ECONNRESET" \/ i.code = "EAI_AGAIN" \/ i.status = 500

Retryable(i) ==
    \/ i.status = 503 \/ i.code = "ECONNREFUSED" \/ i.code = "ETIMEDOUT"
    \/ (i.status = 400 /\ i.multi)
    \/ i.code = "ECONNRESET" \/ i.code = "EAI_AGAIN" \/ i.status = 500 \/ i.status = 429

\* Mutant: status 503 is missing from the discard conditions.
Discards_no503(i) ==
    \/ i.code = "ECONNREFUSED" \/ i.code = "ETIMEDOUT"
    \/ (i.status = 400 /\ i.multi)

\* Mutant: only status 503 discards the credential.
Discards_503only(i) == i.status = 503

Discards(i) ==
    \/ i.status = 503 \/ i.code = "ECONNREFUSED" \/ i.code = "ETIMEDOUT"
    \/ (i.status = 400 /\ i.multi)

Unrelated(tok, i) == tok # 0 /\ (~i.config \/ ~i.urlMatch)

\* The branch of the catch block an error takes.
ErrClass(tok, i) ==
    IF Unrelated(tok, i) THEN "unrelated"
    ELSE IF i.status = 401 THEN "reauth"
    ELSE IF Discards(i) THEN "discard"
    ELSE IF Retryable(i) THEN "keep"
    ELSE "other"

\* The attempt returns without queue.push(token): nothing refers to the
\* credential any more.
forget(S, tok) ==
    IF tok = 0 THEN S ELSE [S EXCEPT !.owner[tok] = "none"]

\* Mutant: the retry-after delay uses up one retry.
attemptCatch_budgetedDelay(S, c, e) ==
    LET tok == S.b[c].token
        p == S.b[c].pool
        i == ErrInfo(e)
        cls == ErrClass(tok, i)
        h == S.b[c].hist
        budgeted == cls \in {"discard", "keep"} /\ i.retryAfter < 0
        S0 == note([S EXCEPT !.b[c].last = cls, !.b[c].held = (tok # 0)], c,
                   [h EXCEPT !.lastErr = e,
                             !.dropped = IF tok # 0 /\ cls = "discard" THEN Inc(@) ELSE @,
                             !.w503 = IF tok # 0 /\ budgeted /\ i.status = 503
                                      THEN Inc(@) ELSE @,
                             !.uncharged = @ \/ cls = "reauth"
                                             \/ (cls \in {"discard", "keep"} /\ ~budgeted),
                             !.plain = @ /\ budgeted])
        pushed == [S0 EXCEPT !.queue[p] = Append(@, tok)]
        dropped == forget(S0, tok)
        kept == IF Discards(i) THEN dropped ELSE pushed
    IN IF Unrelated(tok, i) THEN pRetryCatch(pushed, c, e, FALSE)
       ELSE IF i.status = 401 THEN reauth(dropped, c)
       ELSE IF ~Retryable(i) THEN pRetryCatch(kept, c, e, TRUE)
       ELSE IF i.retryAfter >= 0
            THEN [kept EXCEPT !.b[c].pc = "delay", !.b[c].token = 0,
                              !.b[c].left = IF @ > 0 THEN @ - 1 ELSE 0]
       ELSE pRetryCatch(kept, c, e, FALSE)

\* attempt()'s catch block (lines 55-123) for error e, with token the credential
\* the attempt holds (0: getTokenFn() itself failed, token is undefined).
attemptCatch(S, c, e) ==
    LET tok == S.b[c].token
        p == S.b[c].pool
        i == ErrInfo(e)
        cls == ErrClass(tok, i)
        h == S.b[c].hist
        budgeted == cls \in {"discard", "keep"} /\ i.retryAfter < 0
        S0 == note([S EXCEPT !.b[c].last = cls, !.b[c].held = (tok # 0)], c,
                   [h EXCEPT !.lastErr = e,
                             !.dropped = IF tok # 0 /\ cls = "discard" THEN Inc(@) ELSE @,
                             !.w503 = IF tok # 0 /\ budgeted /\ i.status = 503
                                      THEN Inc(@) ELSE @,
                             !.uncharged = @ \/ cls = "reauth"
                                             \/ (cls \in {"discard", "keep"} /\ ~budgeted),
                             !.plain = @ /\ budgeted])
        pushed == [S0 EXCEPT !.queue[p] = Append(@, tok)]
        dropped == forget(S0, tok)
        kept == IF Discards(i) THEN dropped ELSE pushed
    IN IF Unrelated(tok, i) THEN pRetryCatch(pushed, c, e, FALSE)
       ELSE IF i.status = 401 THEN reauth(dropped, c)
       ELSE IF ~Retryable(i) THEN pRetryCatch(kept, c, e, TRUE)
       ELSE IF i.retryAfter >= 0
            THEN [kept EXCEPT !.b[c].pc = "delay", !.b[c].token = 0]
       ELSE pRetryCatch(kept, c, e, FALSE)

\* attempt()'s success path: queue.push(token); return result.
attemptOk(S, c) ==
    LET p == S.b[c].pool
    IN borrowSettled([S EXCEPT !.queue[p] = Append(@, S.b[c].token),
                               !.b[c].pc = "ok", !.b[c].token = 0, !.b[c].left = 0,
                               !.b[c].errs = NoErrors, !.b[c].main = "none"], c)

\* getTokenFn() resolved: token is the new credential and workerFn(token) starts.
tokenIssued(S, c) ==
    LET t == FreshToken(S)
    IN workerFn(note([S EXCEPT !.b[c].pc = "work", !.b[c].token = t,
                               !.owner[t] = S.b[c].pool], c,
                     [S.b[c].hist EXCEPT !.issued = Inc(@), !.fresh = TRUE]), c)

\* borrow(workerFn): pRetry calls attempt() at once.
borrow(S, c, p, n) ==
    attempt([S EXCEPT !.b[c] = [Caller0 EXCEPT !.pool = p, !.left = Retries, !.part = n,
                                               !.hist.on = S.b[c].hist.on]], c)

RECURSIVE resumeAll(_, _)
\* reauth() fulfilled: every awaiting attempt continues with attempt(), in await order.
resumeAll(S, w) ==
    IF w = <<>> THEN S ELSE resumeAll(attempt(S, Head(w)), Tail(w))

RECURSIVE rejectAll(_, _)
\* reauth() rejected: the await throws inside the catch block, so every awaiting
\* attempt() rejects with authorize()'s error.
rejectAll(S, w) ==
    IF w = <<>> THEN S
    ELSE LET c == Head(w)
             S0 == note([S EXCEPT !.b[c].last = "auth", !.b[c].held = FALSE], c,
                        [S.b[c].hist EXCEPT !.lastErr = "eAuth", !.plain = FALSE])
         IN rejectAll(pRetryCatch(S0, c, "eAuth", FALSE), Tail(w))


\* ----------------------------------------------------------------- actions
Unbounded == {}
UpTo(max) == 0..(max - 1)

\* The environment fails a credential request, an upload request or a next()
\* call; lim holds the values of faults at which it still may (Unbounded: always).
\* The calls made once per upload (startLargeFile, finishLargeFile,
\* cancelLargeFile) and authorize(), made only after a 401, fail freely.
Fault(lim) ==
    IF lim = Unbounded THEN UNCHANGED faults
    ELSE faults \in lim /\ faults' = faults + 1

\* getUploadUrl / getUploadPartUrl responds with a credential (while the model
\* has an identifier left for it).
GetTokenOk(c) ==
    /\ b[c].pc = "gettoken"
    /\ \E t \in 1..MaxTokens : ~InUse(St, t)
    /\ Apply(tokenIssued(St, c))
    /\ UNCHANGED faults

\* getUploadUrl / getUploadPartUrl fails.
GetTokenFail(c, errs, lim) ==
    /\ b[c].pc = "gettoken"
    /\ \E e \in errs : Apply(attemptCatch(St, c, e))
    /\ Fault(lim)

\* workerFn(token) resolves.
WorkOk(c) ==
    /\ b[c].pc = "work"
    /\ Apply(attemptOk(workerFinally(St, c), c))
    /\ UNCHANGED faults

\* workerFn(token) rejects.
WorkFail(c, errs, lim) ==
    /\ b[c].pc = "work"
    /\ \E e \in errs : Apply(attemptCatch(workerFinally(St, c), c, e))
    /\ Fault(lim)

\* authorize() resolves: memoizee caches the result.
AuthorizeOk ==
    /\ reauthMemo = "inflight"
    /\ Apply(resumeAll([St EXCEPT !.reauthMemo = "cached", !.waiters = <<>>,
                                  !.authorizing = @ - 1], waiters))
    /\ UNCHANGED faults

\* authorize() rejects: memoizee drops the entry.
AuthorizeFail ==
    /\ reauthMemo = "inflight"
    /\ Apply(rejectAll([St EXCEPT !.reauthMemo = "none", !.waiters = <<>>,
                                  !.authorizing = @ - 1], waiters))
    /\ UNCHANGED faults

\* maxAge: the cached authorize() result expires after 10 minutes.
ReauthExpire ==
    /\ reauthMemo = "cached"
    /\ Apply([St EXCEPT !.reauthMemo = "none"])
    /\ UNCHANGED faults

\* pUtils.delay(retryAfter) elapsed: return attempt().
DelayDone(c) ==
    /\ b[c].pc = "delay"
    /\ Apply(attempt(St, c))
    /\ UNCHANGED faults

\* p-retry's backoff timer fired: attempt() is called again.
BackoffDone(c) ==
    /\ b[c].pc = "backoff"
    /\ Apply(attempt(St, c))
    /\ UNCHANGED faults

\* A caller invokes borrow(workerFn) on pool p.
BorrowCall(c, p) ==
    /\ b[c].pc \in {"idle", "ok", "failed"}
    /\ Apply(borrow(St, c, p, 0))
    /\ UNCHANGED faults

\* startLargeFile resolved: the worker pool is set up and startWorker() kicks off.
StartLargeFileOk ==
    /\ upc = "starting"
    /\ Apply(startWorker([St EXCEPT !.upc = "running", !.available = conc]))
    /\ UNCHANGED faults

\* startLargeFile rejected: doLargeUpload throws before its try block.
StartLargeFileFail ==
    /\ upc = "starting"
    /\ Apply([St EXCEPT !.upc = "rejected", !.uerr = "eStart"])
    /\ UNCHANGED faults

\* doPart(part): borrow(...) for the part just pushed as entry c of hashes.
doPart(S, c, n) == borrow(S, c, FilePool, n)

\* Mutant: the end of the source only closes the dispatcher, nothing waits for the
\* parts, so resolve() is never called.
nextResolved_noPromiseAll(S, n) ==
    IF n # 0
    THEN LET c == Len(S.hashes) + 1
         IN startWorker(doPart([S EXCEPT !.hashes = Append(@, [number |-> n, val |-> "pending"])],
                               c, n))
    ELSE [S EXCEPT !.available = NaN]

\* startWorker() after "await si.next()" resolved with value n (0: undefined).
nextResolved(S, n) ==
    IF n # 0
    THEN LET c == Len(S.hashes) + 1
         IN startWorker(doPart([S EXCEPT !.hashes = Append(@, [number |-> n, val |-> "pending"])],
                               c, n))
    ELSE checkAll([S EXCEPT !.available = NaN, !.waits = @ \cup {Len(S.hashes)}])

\* An outstanding si.next() call resolves.
NextResolve(i) ==
    /\ i \in 1..Len(nextq)
    /\ serial => i = 1
    /\ Apply(nextResolved([St EXCEPT !.nextq = RemoveAt(@, i)], nextq[i]))
    /\ UNCHANGED faults

\* Which next() calls can reject.  A call that yields a part rejects when hashing or
\* reading it fails.  A call that finds no part left rejects only if the source
\* failed first: the stream adapter's while no call has yet seen the end of the
\* stream (final() sets done), the file adapter's (getFileSize rejected) while no
\* call has resolved at all.
CanReject(n) ==
    \/ n # 0
    \/ serial /\ available # NaN
    \/ ~serial /\ available # NaN /\ hashes = <<>>

\* An outstanding si.next() call rejects: catch (err) { fail(err); }
NextReject(i) ==
    /\ i \in 1..Len(nextq)
    /\ serial => i = 1
    /\ CanReject(nextq[i])
    /\ Apply(fail([St EXCEPT !.nextq = RemoveAt(@, i)], "eNext"))
    /\ Fault(UpTo(MaxFaults))

\* finishLargeFile resolved: the upload call resolves.
FinishOk ==
    /\ upc = "finishing"
    /\ Apply([St EXCEPT !.upc = "resolved"])
    /\ UNCHANGED faults

\* finishLargeFile rejected: catch (err) { await cancelLargeFile; throw err; }
FinishFail ==
    /\ upc = "finishing"
    /\ Apply([St EXCEPT !.upc = "cancelling", !.uerr = "eFinish", !.cancels = Inc(@),
                        !.firstFail = IF @ = "none" THEN "eFinish" ELSE @])
    /\ UNCHANGED faults

\* cancelLargeFile resolved: throw err.
CancelOk ==
    /\ upc = "cancelling"
    /\ Apply([St EXCEPT !.upc = "rejected"])
    /\ UNCHANGED faults

\* Mutant: the cancel call's failure is swallowed and the original error rethrown.
CancelFail_rethrowsOriginal ==
    /\ upc = "cancelling"
    /\ Apply([St EXCEPT !.upc = "rejected"])
    /\ UNCHANGED faults

\* cancelLargeFile rejected: the await throws its error instead.
CancelFail ==
    /\ upc = "cancelling"
    /\ Apply([St EXCEPT !.upc = "rejected", !.uerr = "eCancel"])
    /\ UNCHANGED faults

\* ---------------------------------------------------------- specifications
InitCommon ==
    /\ queue = [p \in AllPools |-> <<>>]
    /\ reauthMemo = "none"
    /\ waiters = <<>>
    /\ authorizing = 0
    /\ owner = [t \in 1..MaxTokens |-> "none"]
    /\ faults = 0
    /\ available = 0
    /\ nextq = <<>>
    /\ piece = 0
    /\ hashes = <<>>
    /\ waits = {}
    /\ partHashes = <<>>
    /\ uerr = "none"
    /\ destroyed = 0
    /\ failCalled = FALSE
    /\ firstFail = "none"
    /\ cancels = 0
    /\ finishes = 0
    /\ nextCalls = 0

\* One partitioned upload: upload() has built the adapter and called doLargeUpload.
Init ==
    /\ InitCommon
    /\ b = [c \in Callers |-> Caller0]
    /\ conc \in 1..MaxConc
    /\ nparts \in 2..MaxParts
    /\ serial \in BOOLEAN
    /\ upc = "starting"
    /\ up = NoUpload
    /\ ad = NoAdapter

Next ==
    \/ StartLargeFileOk
    \/ StartLargeFileFail
    \/ \E i \in 1..(MaxConc + 1) : NextResolve(i)
    \/ \E i \in 1..(MaxConc + 1) : NextReject(i)
    \/ \E c \in Callers : GetTokenOk(c)
    \/ \E c \in Callers : GetTokenFail(c, PartIssueErrors, UpTo(MaxFaults))
    \/ \E c \in Callers : WorkOk(c)
    \/ \E c \in Callers : WorkFail(c, PartErrors, UpTo(MaxFaults))
    \/ AuthorizeOk
    \/ AuthorizeFail
    \/ ReauthExpire
    \/ \E c \in Callers : DelayDone(c)
    \/ \E c \in Callers : BackoffDone(c)
    \/ FinishOk
    \/ FinishFail
    \/ CancelOk
    \/ CancelFail

Spec == Init /\ [][Next]_vars

\* The same upload when borrow calls only succeed or fail for good (403), with
\* several failures in one request; every pending external call, next() call and
\* borrow call settles in the end.
NextSettle ==
    \/ StartLargeFileOk
    \/ StartLargeFileFail
    \/ \E i \in 1..(MaxConc + 1) : NextResolve(i)
    \/ \E i \in 1..(MaxConc + 1) : NextReject(i)
    \/ \E c \in Callers : GetTokenOk(c)
    \/ \E c \in Callers : WorkOk(c)
    \/ \E c \in Callers : WorkFail(c, {"e403"}, UpTo(MaxFailures))
    \/ FinishOk
    \/ FinishFail
    \/ CancelOk
    \/ CancelFail

SpecSettle == Init /\ [][NextSettle]_vars /\ WF_vars(NextSettle)

\* Borrow calls of one client on its bucket pools, no upload running.
Borrowers == 1..NumBorrowers

InitBorrow ==
    /\ InitCommon
    /\ b = [c \in Borrowers |-> Caller0]
    /\ conc = 0
    /\ nparts = 0
    /\ serial = FALSE
    /\ upc = "off"
    /\ up = NoUpload
    /\ ad = NoAdapter

NextBorrow ==
    \/ \E c \in Borrowers, p \in BorrowPools : BorrowCall(c, p)
    \/ \E c \in Borrowers : GetTokenOk(c)
    \/ \E c \in Borrowers : GetTokenFail(c, IssueErrors, UpTo(MaxBorrowFaults))
    \/ \E c \in Borrowers : WorkOk(c)
    \/ \E c \in Borrowers : WorkFail(c, WorkErrors, UpTo(MaxBorrowFaults))
    \/ AuthorizeOk
    \/ AuthorizeFail
    \/ ReauthExpire
    \/ \E c \in Borrowers : DelayDone(c)
    \/ \E c \in Borrowers : BackoffDone(c)

SpecBorrow == InitBorrow /\ [][NextBorrow]_vars

\* The same borrow calls with the history of the first caller's calls kept.
InitTrace ==
    /\ InitCommon
    /\ b = [c \in Borrowers |-> IF c = 1 THEN Observed0 ELSE Caller0]
    /\ conc = 0
    /\ nparts = 0
    /\ serial = FALSE
    /\ upc = "off"
    /\ up = NoUpload
    /\ ad = NoAdapter

TraceErrors == {"e503", "e500", "e403"}
TraceIssueErrors == {"e500"}

NextTrace ==
    \/ \E c \in Borrowers, p \in BorrowPools : BorrowCall(c, p)
    \/ \E c \in Borrowers : GetTokenOk(c)
    \/ \E c \in Borrowers : GetTokenFail(c, TraceIssueErrors, UpTo(MaxBorrowFaults))
    \/ \E c \in Borrowers : WorkOk(c)
    \/ \E c \in Borrowers : WorkFail(c, TraceErrors, UpTo(MaxBorrowFaults))
    \/ \E c \in Borrowers : BackoffDone(c)

SpecTrace == InitTrace /\ [][NextTrace]_vars

\* Borrow calls of one client on all of its pools: uploads into two buckets and
\* the part uploads of one large-file session, one call per caller.
PoolErrors == {"e401"}

NextPools ==
    \/ \E c \in Borrowers, p \in AllPools : b[c].pc = "idle" /\ BorrowCall(c, p)
    \/ \E c \in Borrowers : GetTokenOk(c)
    \/ \E c \in Borrowers : WorkOk(c)
    \/ \E c \in Borrowers : WorkFail(c, PoolErrors, UpTo(MaxPoolFaults))
    \/ AuthorizeOk
    \/ AuthorizeFail
    \/ ReauthExpire
    \/ \E c \in Borrowers : BackoffDone(c)

SpecPools == InitBorrow /\ [][NextPools]_vars


\* ------------------------------------------------------------------ claims
\* ---------------------------------- upload(options) (src/log.js 160-225, 379-394)
\* Mutant: largeFileThreshold has no minimum.
uploadOptionsSchema_noThresholdMin(o) ==
    /\ o.bucketId
    /\ o.fileName
    /\ o.kind # "missing"
    /\ o.concurrency = Absent \/ o.concurrency >= 1
    /\ o.partSize # Absent /\ o.partSize >= MinPartSize /\ o.partSize <= MaxPartSize

\* Whether Joi accepts the options: bucketId, fileName, data and partSize are
\* required, concurrency is at least 1, partSize lies within the limits and
\* largeFileThreshold is at least partSize + 1.
uploadOptionsSchema(o) ==
    /\ o.bucketId
    /\ o.fileName
    /\ o.kind # "missing"
    /\ o.concurrency = Absent \/ o.concurrency >= 1
    /\ o.partSize # Absent /\ o.partSize >= MinPartSize /\ o.partSize <= MaxPartSize
    /\ o.largeFileThreshold = Absent \/ o.largeFileThreshold >= o.partSize + 1

\* The value Joi.attempt returns for accepted options: the defaults filled in.
JoiAttempt(o) ==
    [o EXCEPT !.concurrency = IF @ = Absent THEN 1 ELSE @,
              !.largeFileThreshold = IF @ = Absent THEN o.partSize * 2 ELSE @]

\* The async function upload throws: the upload call rejects.
uploadThrows(S, e) == [S EXCEPT !.up.pc = "rejected", !.up.err = e]

\* doStandardUpload up to its await: the hashing pass over si.makeStream() and
\* si.size() (an fs.stat call for a file).
doStandardUpload(S) ==
    [S EXCEPT !.up.pc = "hashing",
              !.up.stats = IF S.up.o.kind = "file" THEN @ + 1 ELSE @]

\* doLargeUpload up to its await: startLargeFile(...) is called.
doLargeUpload(S) == [S EXCEPT !.up.pc = "large", !.upc = "starting"]

\* return si.next ? doLargeUpload(o, si) : doStandardUpload(o, si), for the
\* adapter the source interface resolved with (large: it has a next method).
dispatch(S, large) == IF large THEN doLargeUpload(S) ELSE doStandardUpload(S)

\* Mutant: the buffer adapter compares with > instead of >=.
bufferSI_exclusive(S) ==
    dispatch(S, S.up.size > S.up.o.largeFileThreshold)

\* The buffer source interface: o.data.length >= o.largeFileThreshold.
bufferSI(S) ==
    dispatch(S, S.up.size >= S.up.o.largeFileThreshold)

\* The file source interface up to its await: getFileSize(o.data).
fileSI(S) == [S EXCEPT !.up.pc = "stat", !.up.stats = @ + 1]

\* getFileSize resolved: size >= o.largeFileThreshold.
fileSized(S) ==
    dispatch(S, S.up.size >= S.up.o.largeFileThreshold)

\* The stream source interface up to its await: s.pipe(processor).
streamSI(S) == [S EXCEPT !.up.pc = "probe"]

\* finished(): resolve(readBufferSize >= o.largeFileThreshold).
finished(S) ==
    dispatch(S, S.up.readBufferSize >= S.up.o.largeFileThreshold)

\* processor.write(chunk): the chunk is buffered and counted, and the probe is
\* over once the threshold is reached.
processorWrite(S) ==
    LET n == S.up.readBufferSize + Head(S.up.chunks)
        S1 == [S EXCEPT !.up.readBufferSize = n, !.up.chunks = Tail(@),
                        !.up.reads = @ + 1]
    IN IF n >= S.up.o.largeFileThreshold THEN finished(S1) ELSE S1

\* const si = await sourceInterface(o), by what o.data is.
sourceInterface(S) ==
    CASE S.up.o.kind = "buffer" -> bufferSI(S)
      [] S.up.o.kind = "file" -> fileSI(S)
      [] OTHER -> streamSI(S)

\* upload(options) up to its first await that waits for I/O.
upload(S) ==
    IF uploadOptionsSchema(S.up.o)
    THEN sourceInterface([S EXCEPT !.up.o = JoiAttempt(@)])
    ELSE uploadThrows(S, "eValidation")

\* borrowBucketUploadToken(o.bucketId, worker), called once hash and size are known.
borrowBucketUploadToken(S, c) ==
    borrow([S EXCEPT !.up.pc = "borrow", !.up.caller = c], c, "bucketA", 0)

\* The caller invokes upload(options).
Upload ==
    /\ up.pc = "call"
    /\ Apply(upload(St))
    /\ UNCHANGED faults

\* fs.stat responds: the file has up.size bytes.
FileStatOk ==
    /\ up.pc = "stat"
    /\ Apply(fileSized(St))
    /\ UNCHANGED faults

\* fs.stat fails or the path is not a regular file.
FileStatFail ==
    /\ up.pc = "stat"
    /\ Apply(uploadThrows(St, "eStat"))
    /\ UNCHANGED faults

\* The stream emits its next chunk while the probe reads it.
ProbeChunk ==
    /\ up.pc = "probe"
    /\ up.chunks # <<>>
    /\ Apply(processorWrite(St))
    /\ UNCHANGED faults

\* The stream ends while the probe reads it: processor's final() runs.
ProbeEnd ==
    /\ up.pc = "probe"
    /\ up.chunks = <<>>
    /\ Apply(finished(St))
    /\ UNCHANGED faults

\* The stream emits 'error' while the probe reads it: reject(err).
ProbeError ==
    /\ up.pc = "probe"
    /\ Apply(uploadThrows(St, "eStream"))
    /\ UNCHANGED faults

\* The hashing pass and si.size() are done.
HashOk(c) ==
    /\ up.pc = "hashing"
    /\ Apply(borrowBucketUploadToken(St, c))
    /\ UNCHANGED faults

\* The hashing pass or si.size() fails.
HashFail ==
    /\ up.pc = "hashing"
    /\ Apply(uploadThrows(St, "eHash"))
    /\ UNCHANGED faults

RECURSIVE Chunkings(_)
\* Every way a stream delivers n bytes: the sequences of chunk sizes adding up to n.
Chunkings(n) ==
    IF n = 0 THEN {<<>>}
    ELSE UNION {{<<k>> \o ch : ch \in Chunkings(n - k)} : k \in 1..n}

RECURSIVE Sum(_)
Sum(q) == IF q = <<>> THEN 0 ELSE Head(q) + Sum(Tail(q))

Uploaders == {1}

\* The options a caller passes, the valid and the invalid ones.
Options ==
    [bucketId : BOOLEAN, fileName : BOOLEAN,
     kind : {"buffer", "file", "stream", "missing"},
     concurrency : {0, 1},
     largeFileThreshold : (MinPartSize..MaxSize) \cup {Absent},
     partSize : {Absent, MinPartSize - 1, MinPartSize, MaxPartSize, MaxPartSize + 1}]

\* The data sources: a buffer or a file of some size, a stream with its chunks.
Sources(kind) ==
    IF kind = "stream" THEN UNION {Chunkings(n) : n \in 0..MaxSize}
    ELSE IF kind = "missing" THEN {<<>>}
    ELSE {<<n>> : n \in 0..MaxSize}

DirectErrors == {"e401", "e503", "e403"}
DirectIssueErrors == {"e500"}

\* One upload(options) call of a client with empty pools.
InitUpload ==
    /\ InitCommon
    /\ b = [c \in Uploaders |-> Caller0]
    /\ conc = 0
    /\ nparts = 0
    /\ serial = FALSE
    /\ upc = "off"
    /\ ad = NoAdapter
    /\ \E o \in Options : \E src \in Sources(o.kind) :
           up = [Upload0 EXCEPT !.o = o, !.size = Sum(src),
                                !.chunks = IF o.kind = "stream" THEN src ELSE <<>>]

NextUpload ==
    \/ Upload
    \/ FileStatOk
    \/ FileStatFail
    \/ ProbeChunk
    \/ ProbeEnd
    \/ ProbeError
    \/ \E c \in Uploaders : HashOk(c)
    \/ HashFail
    \/ \E c \in Uploaders : GetTokenOk(c)
    \/ \E c \in Uploaders : GetTokenFail(c, DirectIssueErrors, UpTo(MaxDirectFaults))
    \/ \E c \in Uploaders : WorkOk(c)
    \/ \E c \in Uploaders : WorkFail(c, DirectErrors, UpTo(MaxDirectFaults))
    \/ AuthorizeOk
    \/ AuthorizeFail
    \/ \E c \in Uploaders : BackoffDone(c)

SpecUpload == InitUpload /\ [][NextUpload]_vars

\* ------------- the large-file adapters (src/unnamed/part_002, src/source-interface)
Ceil(x, y) == (x + y - 1) \div y
Min(x, y) == IF x < y THEN x ELSE y

RECURSIVE sha1(_)
\* hashBuffer: a digest of the bytes, in their order.
sha1(q) ==
    IF q = <<>> THEN 1
    ELSE (sha1(SubSeq(q, 1, Len(q) - 1)) * 31 + q[Len(q)]) % 1009

\* buf.subarray(start, end): zero-based, end exclusive and clamped to the length.
subarray(buf, start, end) == SubSeq(buf, start + 1, Min(end, Len(buf)))

RECURSIVE Concat(_)
\* The bytes of a sequence of chunks, in order.
Concat(chs) == IF chs = <<>> THEN <<>> ELSE Head(chs) \o Concat(Tail(chs))

SettledCall(c) == c.st \in {"part", "undefined", "rejected"}
Running(c) == c.st \in {"reading", "hashing"}

\* Mutant: the number of parts is rounded down.
bufferTotal_floor(S) == Len(S.ad.data) \div S.ad.partSize

\* const total = Math.ceil(o.data.length / o.partSize)
bufferTotal(S) == Ceil(Len(S.ad.data), S.ad.partSize)

\* bufferLargeInterface's next() up to "await hashBuffer(data)".
bufferNext(S, k) ==
    LET p == S.ad.piece
        P == S.ad.partSize
    IN IF p >= bufferTotal(S)
       THEN [S EXCEPT !.ad.calls[k].st = "undefined"]
       ELSE [S EXCEPT !.ad.piece = p + 1,
                      !.ad.calls[k].st = "hashing",
                      !.ad.calls[k].number = p + 1,
                      !.ad.calls[k].buf = subarray(S.ad.data, p * P, (p + 1) * P)]

\* fileLargeInterface's next() after "await detail", up to "await hash": the part
\* is what fs.createReadStream(o.data, { start, end: end - 1 }) reads.
fileNext(S, k) ==
    LET p == S.ad.piece
        P == S.ad.partSize
        size == Len(S.ad.data)
        start == p * P
        end == Min(start + P, size)
    IN IF p >= Ceil(size, P)
       THEN [S EXCEPT !.ad.calls[k].st = "undefined"]
       ELSE [S EXCEPT !.ad.piece = p + 1,
                      !.ad.calls[k].st = "hashing",
                      !.ad.calls[k].number = p + 1,
                      !.ad.calls[k].buf = SubSeq(S.ad.data, start + 1, end)]

\* The function streamLargeInterface wraps in syncPromise, up to source.pipe(reader).
streamNext(S, k) ==
    IF S.ad.done
    THEN [S EXCEPT !.ad.calls[k].st = "undefined"]
    ELSE [S EXCEPT !.ad.piece = @ + 1,
                   !.ad.calls[k].st = "reading",
                   !.ad.calls[k].number = S.ad.piece]

\* deliver(result): the reader is unpiped and the call resolves with undefined or
\* with the promise of the hashed part (<<>> stands for undefined).
deliver(S, k, result) ==
    IF result = <<>>
    THEN [S EXCEPT !.ad.calls[k].st = "undefined"]
    ELSE [S EXCEPT !.ad.calls[k].st = "hashing", !.ad.calls[k].buf = result]

\* Mutant: bytes read beyond the part boundary are not put back.
readerWrite_dropOverflow(S, k, chunk) ==
    LET c == S.ad.calls[k]
        P == S.ad.partSize
        buf == c.buf \o SubSeq(chunk, 1, Min(Len(chunk), P - Len(c.buf)))
        pos == c.pos + Len(chunk)
        S1 == [S EXCEPT !.ad.calls[k].buf = buf, !.ad.calls[k].pos = pos]
    IN IF pos >= P THEN deliver(S1, k, buf) ELSE S1

\* reader.write(chunk): chunk.copy(buf, pos) copies what fits; a full buffer is
\* delivered and the bytes beyond it are unshifted onto the source.
readerWrite(S, k, chunk) ==
    LET c == S.ad.calls[k]
        P == S.ad.partSize
        buf == c.buf \o SubSeq(chunk, 1, Min(Len(chunk), P - Len(c.buf)))
        pos == c.pos + Len(chunk)
        overflow == pos - P
        S1 == [S EXCEPT !.ad.calls[k].buf = buf, !.ad.calls[k].pos = pos]
    IN IF pos >= P
       THEN IF pos > P
            THEN [deliver(S1, k, buf) EXCEPT
                      !.ad.source = <<SubSeq(chunk, Len(chunk) - overflow + 1, Len(chunk))>> \o @]
            ELSE deliver(S1, k, buf)
       ELSE S1

\* reader.final(): deliver(pos !== 0 ? buf.subarray(0, pos) : undefined); done = true.
readerFinal(S, k) ==
    LET c == S.ad.calls[k]
    IN [deliver(S, k, IF c.pos # 0 THEN c.buf ELSE <<>>) EXCEPT !.ad.done = TRUE]

RECURSIVE writeAll(_, _, _)
\* The source emits a chunk: every piped reader's write() receives it.
writeAll(S, readers, chunk) ==
    IF readers = {} THEN S
    ELSE LET k == SetMin(readers)
         IN writeAll(readerWrite(S, k, chunk), readers \ {k}, chunk)

RECURSIVE finalAll(_, _)
\* The source ends: every piped reader is ended.
finalAll(S, readers) ==
    IF readers = {} THEN S
    ELSE LET k == SetMin(readers)
         IN finalAll(readerFinal(S, k), readers \ {k})

Readers(S) == {k \in DOMAIN S.ad.calls : S.ad.calls[k].st = "reading"}

RECURSIVE syncPromise_unserialized(_)
\* Mutant: the wrapped function is invoked at once (return fn(...args)).
syncPromise_unserialized(S) ==
    LET queued == {k \in DOMAIN S.ad.calls : S.ad.calls[k].st = "queued"}
    IN IF queued = {} THEN S
       ELSE syncPromise_unserialized(streamNext(S, SetMin(queued)))

RECURSIVE syncPromise(_)
\* syncPromise: result = prior.then(() => fn()), prior = result.then(ignore, ignore).
\* The earliest queued call runs once every earlier call has settled, fulfilled
\* or rejected; a call that settles at once lets the next one run.
syncPromise(S) ==
    LET queued == {k \in DOMAIN S.ad.calls : S.ad.calls[k].st = "queued"}
    IN IF queued = {} THEN S
       ELSE LET k == SetMin(queued)
            IN IF \E j \in 1..(k - 1) : Running(S.ad.calls[j]) THEN S
               ELSE syncPromise(streamNext(S, k))

\* A call settled: what runs next.
settled(S) == IF S.ad.kind = "stream" THEN syncPromise(S) ELSE S

RECURSIVE detailResolved(_)
\* getFileSize resolved: the calls awaiting detail continue, in call order.
detailResolved(S) ==
    LET queued == {k \in DOMAIN S.ad.calls : S.ad.calls[k].st = "queued"}
    IN IF queued = {} THEN S
       ELSE detailResolved(fileNext(S, SetMin(queued)))

\* getFileSize rejected: every call awaiting detail rejects.
detailRejected(S) ==
    [S EXCEPT !.ad.calls = [k \in DOMAIN @ |->
                              IF @[k].st = "queued" THEN [@[k] EXCEPT !.st = "rejected"]
                              ELSE @[k]]]

\* si.next(): one more call, entered as the adapter's kind has it.
next(S) ==
    LET k == Len(S.ad.calls) + 1
        ahead == Cardinality({j \in DOMAIN S.ad.calls : ~SettledCall(S.ad.calls[j])})
        S1 == [S EXCEPT !.ad.calls = Append(@, [Call0 EXCEPT !.ahead = ahead])]
    IN CASE S.ad.kind = "buffer" -> bufferNext(S1, k)
         [] S.ad.kind = "file" ->
                IF S.ad.detail = "ok" THEN fileNext(S1, k)
                ELSE IF S.ad.detail = "failed" THEN detailRejected(S1)
                ELSE S1
         [] OTHER -> syncPromise(S1)

\* A caller invokes si.next(), again or while earlier calls are outstanding.
NextCall ==
    /\ ad.kind # "off"
    /\ Len(ad.calls) < Ceil(Len(ad.data), ad.partSize) + AfterEnd
    /\ Cardinality({k \in DOMAIN ad.calls : ~SettledCall(ad.calls[k])}) < MaxPending
    /\ Apply(next(St))
    /\ UNCHANGED faults

\* fs.stat responds to fileLargeInterface.
DetailOk ==
    /\ ad.detail = "pending"
    /\ Apply(detailResolved([St EXCEPT !.ad.detail = "ok"]))
    /\ UNCHANGED faults

\* fs.stat fails.
DetailFail ==
    /\ ad.detail = "pending"
    /\ Apply(detailRejected([St EXCEPT !.ad.detail = "failed"]))
    /\ UNCHANGED faults

\* The stream adapter's source emits its next chunk to the piped reader.
ReaderWrite ==
    /\ Readers(St) # {}
    /\ ad.source # <<>>
    /\ Apply(writeAll([St EXCEPT !.ad.source = Tail(@)], Readers(St), Head(ad.source)))
    /\ UNCHANGED faults

\* The stream adapter's source ends.
ReaderFinal ==
    /\ Readers(St) # {}
    /\ ad.source = <<>>
    /\ Apply(settled(finalAll(St, Readers(St))))
    /\ UNCHANGED faults

\* The hash of a part is computed: the call resolves with the part.
PartHashOk(k) ==
    /\ k \in DOMAIN ad.calls
    /\ ad.calls[k].st = "hashing"
    /\ Apply(settled([St EXCEPT !.ad.calls[k].st = "part",
                                !.ad.calls[k].hash = sha1(ad.calls[k].buf)]))
    /\ UNCHANGED faults

\* Hashing a part fails (for a file: reading it fails): the call rejects.
PartHashFail(k) ==
    /\ k \in DOMAIN ad.calls
    /\ ad.calls[k].st = "hashing"
    /\ Apply(settled([St EXCEPT !.ad.calls[k].st = "rejected"]))
    /\ Fault(UpTo(MaxHashFaults))

\* The bytes of a source of n bytes: byte i is i, so that a byte lost, repeated
\* or out of place shows.
Bytes(n) == [i \in 1..n |-> i]

RECURSIVE Chunked(_, _)
\* The chunks a stream delivers data in, given their sizes.
Chunked(data, sizes) ==
    IF sizes = <<>> THEN <<>>
    ELSE <<SubSeq(data, 1, Head(sizes))>>
             \o Chunked(SubSeq(data, Head(sizes) + 1, Len(data)), Tail(sizes))

RECURSIVE probe(_, _, _)
\* The stream probe: chunks are pushed onto readBuffer until the buffered size
\* reaches the threshold or the stream ends; rest is what the stream still holds.
probe(readBuffer, chunks, T) ==
    IF chunks = <<>> \/ Len(Concat(readBuffer)) >= T
    THEN [readBuffer |-> readBuffer, rest |-> chunks]
    ELSE probe(Append(readBuffer, Head(chunks)), Tail(chunks), T)

bufferLargeInterface(data, P) ==
    [Adapter0 EXCEPT !.kind = "buffer", !.data = data, !.partSize = P]

\* The detail promise (getFileSize) is pending when the adapter is returned.
fileLargeInterface(data, P) ==
    [Adapter0 EXCEPT !.kind = "file", !.data = data, !.partSize = P,
                      !.detail = "pending"]

\* Mutant: the source is o.data alone, the buffered chunks are left out.
streamLargeInterface_dropReadBuffer(data, P, T, readBuffer, rest) ==
    [Adapter0 EXCEPT !.kind = "stream", !.data = data, !.partSize = P,
                      !.source = rest,
                      !.nchunks = Len(readBuffer) + Len(rest),
                      !.first = Len(Head(readBuffer)),
                      !.lookahead = Len(Concat(readBuffer)), !.threshold = T,
                      !.piece = 1]

\* streamLargeInterface(o, readBuffer): source is
\* concatStream([bufferStream(readBuffer), o.data]) and piece starts at 1.
streamLargeInterface(data, P, T, readBuffer, rest) ==
    [Adapter0 EXCEPT !.kind = "stream", !.data = data, !.partSize = P,
                      !.source = readBuffer \o rest,
                      !.nchunks = Len(readBuffer) + Len(rest),
                      !.first = Len(Head(readBuffer)),
                      !.lookahead = Len(Concat(readBuffer)), !.threshold = T,
                      !.piece = 1]

\* The adapters the source interfaces return for sources of at least
\* largeFileThreshold bytes, with largeFileThreshold > partSize.  (Part sizes
\* start at one byte here: the adapters do not read the schema's limits.)
Adapters ==
    UNION {UNION {
        {bufferLargeInterface(Bytes(n), P), fileLargeInterface(Bytes(n), P)} \cup
        UNION {{LET pr == probe(<<>>, Chunked(Bytes(n), ch), T)
                IN streamLargeInterface(Bytes(n), P, T, pr.readBuffer, pr.rest)
                : ch \in Chunkings(n)} : T \in (P + 1)..n}
        : P \in 1..(n - 1)} : n \in 2..MaxBytes}

\* A large-file adapter, just returned by its source interface.
InitAdapter ==
    /\ InitCommon
    /\ b = [c \in Uploaders |-> Caller0]
    /\ conc = 0
    /\ nparts = 0
    /\ serial = FALSE
    /\ upc = "off"
    /\ up = NoUpload
    /\ ad \in Adapters

NextAdapter ==
    \/ NextCall
    \/ DetailOk
    \/ DetailFail
    \/ ReaderWrite
    \/ ReaderFinal
    \/ \E k \in 1..(MaxBytes + AfterEnd) : PartHashOk(k)
    \/ \E k \in 1..(MaxBytes + AfterEnd) : PartHashFail(k)

SpecAdapter == InitAdapter /\ [][NextAdapter]_vars

InFlight == {c \in DOMAIN b : b[c].part # 0 /\ b[c].pc \notin {"idle", "ok", "failed"}}
Settled == upc \in {"resolved", "rejected"}
Free == IF available = NaN THEN 0 ELSE available

\* C1: the partSha1Array handed to finishLargeFile is ordered by part number: its
\* entry at index i-1 is the hash of part i, whatever order next() calls resolve
\* and part uploads finish in.
C1_FinishOrderedByPartNumber ==
    finishes > 0 => \A i \in 1..Len(partHashes) : partHashes[i].number = i

\* C2: finishLargeFile is called only after all N parts the adapter yields were
\* dispatched and uploaded, and its array has exactly N entries, none missing.
C2_FinishHasEveryPart ==
    finishes > 0 =>
        /\ Len(partHashes) = nparts
        /\ \A n \in 1..nparts : \E i \in 1..Len(partHashes) :
               partHashes[i].number = n /\ partHashes[i].val = "hash"
        /\ \A n \in 1..nparts : \E c \in DOMAIN b : b[c].part = n /\ b[c].pc = "ok"

\* C3: once fail() has been invoked the orchestrator makes no further si.next()
\* call and dispatches no further part.
C3_NoDispatchAfterFail ==
    [][failCalled => (nextCalls' = nextCalls /\ Len(hashes') = Len(hashes))]_vars

\* C4: if startLargeFile succeeded and a later step fails (a next() rejection, a
\* part's terminal failure, finishLargeFile failing), the upload call rejects,
\* cancelLargeFile was called before it did, and when the cancel call succeeded
\* the rejection carries the original error.
C4_FailureCancelsAndRethrows ==
    (Settled /\ firstFail # "none") =>
        /\ upc = "rejected"
        /\ cancels >= 1
        /\ uerr # "eCancel" => uerr = firstFail

\* C5: a started session is terminated exactly once by the time the upload call
\* settles: it resolves only after finishLargeFile succeeded with cancelLargeFile
\* never called, and it rejects only after cancelLargeFile was called (once).
C5_TerminatedExactlyOnce ==
    (Settled /\ uerr # "eStart") =>
        /\ upc = "resolved" => (finishes = 1 /\ cancels = 0)
        /\ upc = "rejected" => cancels = 1
        /\ finishes <= 1

C5_Witness ==
    /\ upc = "rejected"
    /\ finishes = 1
    /\ cancels = 1
    /\ uerr = "eFinish"

\* C6: if any part upload fails terminally, finishLargeFile is never called and
\* the upload call rejects with the first failure recorded (unless the cancel
\* call itself fails); parts settling later do not change the outcome.
C6_PartFailureNeverFinishes ==
    (\E c \in DOMAIN b : b[c].part # 0 /\ b[c].pc = "failed") =>
        /\ finishes = 0
        /\ upc # "resolved"
        /\ (upc = "rejected" /\ uerr # "eCancel") => uerr = firstFail

\* C7: free worker slots + outstanding si.next() calls + in-flight part uploads
\* never exceeds concurrency, also after failures and after available became NaN.
C7_ConcurrencyBound ==
    upc # "starting" => Free + Len(nextq) + Cardinality(InFlight) <= conc

C7_Witness ==
    /\ conc = 2
    /\ Cardinality(InFlight) = 2
    /\ failCalled


\* Borrow calls under every sequence of responses, each external call and each
\* timer eventually completing.
LiveErrors == {"e401", "e503", "e503ra", "e500", "e403", "eObtain"}
LiveIssueErrors == {"e401", "e500"}

LiveBorrowers == 1..NumLive

Step(c) ==
    \/ GetTokenOk(c)
    \/ GetTokenFail(c, LiveIssueErrors, Unbounded)
    \/ WorkOk(c)
    \/ WorkFail(c, LiveErrors, Unbounded)
    \/ DelayDone(c)
    \/ BackoffDone(c)

AuthorizeStep == AuthorizeOk \/ AuthorizeFail

InitLive ==
    /\ InitCommon
    /\ b = [c \in LiveBorrowers |-> Observed0]
    /\ conc = 0
    /\ nparts = 0
    /\ serial = FALSE
    /\ upc = "off"
    /\ up = NoUpload
    /\ ad = NoAdapter

NextLive ==
    \/ \E c \in LiveBorrowers, p \in BorrowPools : BorrowCall(c, p)
    \/ \E c \in LiveBorrowers : Step(c)
    \/ AuthorizeStep
    \/ ReauthExpire

SpecLive ==
    /\ InitLive
    /\ [][NextLive]_vars
    /\ \A c \in LiveBorrowers : WF_vars(Step(c))
    /\ WF_vars(AuthorizeStep)

Occurrences(t) ==
    Cardinality({c \in DOMAIN b : b[c].token = t})
    + Cardinality({pi \in AllPools \X (1..(2 * MaxTokens)) :
                      pi[2] <= Len(queue[pi[1]]) /\ queue[pi[1]][pi[2]] = t})

\* C8: every credential is held by at most one in-progress attempt or present at
\* most once in at most one pool queue, never both.
C8_CredentialExclusive == \A t \in 1..MaxTokens : Occurrences(t) <= 1

C8_Witness ==
    \E c \in DOMAIN b :
        /\ b[c].pc = "work"
        /\ b[c].pool \in Pools
        /\ \E i \in 1..Len(queue[b[c].pool]) : queue[b[c].pool][i] # 0

\* C9: after work fails with an error unrelated to the credential's request the
\* borrow call has failed with that error: work is not invoked again.
C9_UnrelatedNotRetried ==
    \A c \in DOMAIN b : b[c].last = "unrelated" => b[c].pc = "failed"

\* C10: every borrow call eventually returns work's result or fails.
C10_BorrowTerminates ==
    \A c \in LiveBorrowers :
        (b[c].pc \notin {"idle", "ok", "failed"}) ~> (b[c].pc \in {"ok", "failed"})

\* The credential-specific failures of work(token), by the rule they match.
DiscardErrors == {"e503", "e503ra", "eCONNREFUSED", "eTIMEDOUT", "e400multi"}
KeepErrors == {"eCONNRESET", "eEAI_AGAIN", "e500", "e429", "e429ra"}
FatalErrors == {"e403", "e400"}
DelayErrors == {"e503ra", "e429ra"}

Working == {c \in DOMAIN b : b[c].pc = "work"}
Retrying(S, c) == S.b[c].pc \in {"backoff", "delay"}

\* C11: when work fails with 503, ECONNREFUSED, ETIMEDOUT or the 400 "more than
\* one upload using auth token", the credential is in no queue and held by no
\* attempt afterwards, and the call is retried with a different credential.
C11_DiscardClassesDropCredential ==
    \A c \in Working : \A e \in DiscardErrors :
        LET S2 == attemptCatch(St, c, e)
        IN /\ ~InUse(S2, b[c].token)
           /\ Retrying(S2, c) \/ (b[c].left = 0 /\ S2.b[c].pc = "failed")
           /\ Retrying(S2, c) => attempt(S2, c).b[c].token # b[c].token

C11_Witness ==
    \E c \in DOMAIN b :
        /\ b[c].last = "discard" /\ b[c].held
        /\ b[c].pc \in {"work", "gettoken"}
        /\ b[c].left = Retries - 1

\* C12: when work fails with ECONNRESET, EAI_AGAIN, 500 or 429 the credential is
\* back at the tail of its pool queue before the next attempt, and the call is
\* retried, using up one retry unless the response carried a retry-after.
C12_KeepClassesRequeueCredential ==
    \A c \in Working : \A e \in KeepErrors :
        LET S2 == attemptCatch(St, c, e)
            p == b[c].pool
        IN /\ S2.queue[p] = Append(queue[p], b[c].token)
           /\ S2.b[c].token = 0
           /\ IF e \in DelayErrors
              THEN S2.b[c].pc = "delay" /\ S2.b[c].left = b[c].left
              ELSE IF b[c].left > 0
              THEN S2.b[c].pc = "backoff" /\ S2.b[c].left = b[c].left - 1
              ELSE S2.b[c].pc = "failed"

C12_Witness ==
    \E c \in DOMAIN b :
        /\ b[c].last = "keep" /\ b[c].held
        /\ b[c].pc = "backoff"
        /\ b[c].left = Retries - 1
        /\ \E d \in DOMAIN b : d # c /\ b[d].pc = "work" /\ b[d].pool = b[c].pool

\* C13: when work fails with an error matching no retry or reauthorization rule
\* (403), the credential is put back, and borrow fails at once with that error,
\* whatever retries are left.
C13_FatalFailsAtOnce ==
    \A c \in Working : \A e \in FatalErrors :
        LET S2 == attemptCatch(St, c, e)
            p == b[c].pool
        IN /\ S2.queue[p] = Append(queue[p], b[c].token)
           /\ S2.b[c].pc = "failed"
           /\ S2.b[c].err = e

C13_Witness ==
    \E c \in DOMAIN b :
        /\ b[c].pc = "failed" /\ b[c].err = "e403"
        /\ b[c].last = "other" /\ b[c].held
        /\ queue[b[c].pool] # <<>>

\* C14: when work fails with 401, reauth() is awaited (one authorize() call in
\* flight or a cached result) and attempt() runs again with the number of
\* retries left unchanged, so the call still returns a later success.
C14_ReauthKeepsBudget ==
    /\ \A c \in Working :
           LET S2 == attemptCatch(St, c, "e401")
           IN /\ S2.b[c].left = b[c].left
              /\ S2.b[c].errs = b[c].errs
              /\ S2.reauthMemo \in {"inflight", "cached"}
              /\ \/ S2.b[c].pc = "reauth" /\ S2.reauthMemo = "inflight"
                    /\ \E k \in 1..Len(S2.waiters) : S2.waiters[k] = c
                 \/ S2.b[c].pc \in {"work", "gettoken"} /\ reauthMemo = "cached"
    /\ \A c \in DOMAIN b : b[c].pc = "reauth" =>
           LET S3 == resumeAll([St EXCEPT !.reauthMemo = "cached", !.waiters = <<>>], waiters)
           IN /\ S3.b[c].left = b[c].left
              /\ S3.b[c].pc \in {"work", "gettoken"}
              /\ S3.b[c].pc = "work" => attemptOk(S3, c).b[c].pc = "ok"

C14_Witness ==
    \E c \in DOMAIN b : b[c].pc = "ok" /\ b[c].last = "reauth" /\ b[c].held

C16_TenAttemptsLastError ==
    \A c \in DOMAIN b : b[c].hist.on =>
        /\ ~b[c].hist.uncharged => b[c].hist.tries <= Retries + 1
        /\ (b[c].pc = "failed" /\ b[c].hist.plain) =>
               (b[c].hist.tries = Retries + 1 /\ b[c].err = b[c].hist.lastErr)
\* A borrow call of the observed caller whose first attempt failed in work with
\* a plain 503 and whose second attempt succeeded.
FailedThenOk(h, pc) == pc = "ok" /\ h.tries = 2 /\ h.w503 = 1

\* C17 (as claimed): in a borrow call whose work fails with 503 on the first attempt
\* and succeeds on the second, exactly one credential is discarded and exactly
\* one new credential is issued: the one the second attempt runs with, or the
\* only one issued during the call.
C17_OneDiscardedOneIssued ==
    \A c \in DOMAIN b : (b[c].hist.on /\ FailedThenOk(b[c].hist, b[c].pc)) =>
        /\ b[c].hist.dropped = 1
        /\ b[c].hist.fresh \/ b[c].hist.issued = 1

\* C17 (amended): in such a call the failed attempt's credential is dropped (no
\* queue holds it, no attempt has it), the second attempt takes the credential
\* at the head of the queue without an issuing call when there is one and asks
\* for a new one otherwise, and the call succeeds having discarded exactly one
\* credential and been issued at most one per attempt.
C17_OneDiscardedAtMostOneIssued ==
    [][\A c \in DOMAIN b : b[c].hist.on =>
        LET h == b[c].hist
            h2 == b'[c].hist
            t == b[c].token
            q == queue[b[c].pool]
        IN /\ (b[c].pc = "work" /\ h.tries = 1 /\ h2.w503 = 1) =>
                /\ b'[c].pc = "backoff"
                /\ h2.dropped = 1
                /\ \A d \in DOMAIN b : b'[d].token # t
                /\ \A p \in AllPools : \A k \in 1..Len(queue'[p]) : queue'[p][k] # t
           /\ (b[c].pc = "backoff" /\ h.tries = 1 /\ h.w503 = 1 /\ b'[c].pc # "backoff") =>
                IF q # <<>> /\ Head(q) # 0
                THEN b'[c].pc = "work" /\ b'[c].token = Head(q) /\ h2.issued = h.issued
                ELSE b'[c].pc = "gettoken"
           /\ (b[c].pc = "work" /\ FailedThenOk(h2, b'[c].pc)) =>
                /\ h2.dropped = 1
                /\ h2.issued <= 2
                /\ h2.fresh => h2.issued >= 1
                /\ queue'[b[c].pool] = Append(q, t)]_vars

C17_Witness ==
    \E c \in DOMAIN b :
        /\ b[c].hist.on /\ FailedThenOk(b[c].hist, b[c].pc)
        /\ ~b[c].hist.fresh
        /\ b[c].hist.issued = 0
        /\ b[c].hist.dropped = 1

HasCredential(q) == \E k \in 1..Len(q) : q[k] # 0
Idle(c) == b[c].pc \in {"idle", "ok", "failed"}

\* C18: a borrow call that succeeds leaves its credential in its pool's queue, and
\* a borrow call that starts while the queue of its pool holds a credential
\* takes one from the queue without calling the credential-issuing function.
C18_QueuedCredentialReused ==
    [][\A c \in DOMAIN b :
        /\ (b[c].pc = "work" /\ b'[c].pc = "ok") =>
               queue'[b[c].pool] = Append(queue[b[c].pool], b[c].token)
        /\ (Idle(c) /\ b'[c].pc \notin {"idle", "ok", "failed"}
               /\ HasCredential(queue[b'[c].pool])) =>
               (b'[c].pc = "work" /\ b'[c].token # 0)]_vars

\* C19: at most one authorize() call is in flight at any time, every attempt that
\* awaits reauth() awaits that call, and no authorize() call is started while a
\* cached result is valid.
C19_SingleFlightAuthorize ==
    [][/\ authorizing' <= 1
       /\ reauthMemo = "cached" => authorizing' <= authorizing
       /\ \A c \in DOMAIN b : b'[c].pc = "reauth" =>
              /\ authorizing' = 1
              /\ \E k \in 1..Len(waiters') : waiters'[k] = c]_vars

C19_Witness ==
    /\ authorizing = 1
    /\ \E c, d \in DOMAIN b :
           /\ b[c].pc = "reauth" /\ b[d].pc = "reauth"
           /\ b[c].pool # b[d].pool

\* C20: a credential is only ever queued in, and lent to borrowers of, the pool
\* whose issuing call returned it: a bucket's credentials stay with that bucket,
\* a session's with the part uploads of that session.
C20_CredentialsStayInTheirPool ==
    /\ \A p \in AllPools : \A k \in 1..Len(queue[p]) :
           queue[p][k] # 0 => owner[queue[p][k]] = p
    /\ \A c \in DOMAIN b : b[c].token # 0 => owner[b[c].token] = b[c].pool

C20_Witness ==
    \E c, d \in DOMAIN b :
        /\ c # d
        /\ b[d].pc = "ok" /\ b[d].last = "none"
        /\ b[c].pc = "work" /\ b[c].pool = b[d].pool
        /\ Cardinality({t \in 1..MaxTokens : owner[t] # "none"}) = 1

\* C21: whenever an upload ends early with a failure after its source adapter was
\* built (startLargeFile failing, a next() rejection, a part upload's terminal
\* failure), si.destroy() was invoked before the upload call rejected.
C21_DestroyBeforeReject ==
    (upc = "rejected" /\ finishes = 0) => destroyed >= 1

\* C30: the orchestrator requests parts strictly one at a time: at most one
\* si.next() call is outstanding at any moment, for every concurrency and every
\* order of part-upload completions.
C30_OneNextCallAtATime == Len(nextq) <= 1

\* C22: for a stream source that errors after some data was read and before
\* largeFileThreshold bytes were accumulated, the upload call rejects with the
\* stream's error, no upload request, credential request or startLargeFile call
\* is made, and the source's destroy path runs exactly once.
C22_ProbeErrorRejectsDestroysOnce ==
    (up.err = "eStream" /\ up.reads >= 1) =>
        /\ up.pc = "rejected"
        /\ up.attempts = 0
        /\ \A c \in DOMAIN b : b[c].pc = "idle"
        /\ upc = "off"
        /\ destroyed = 1

\* The source interface has resolved and upload() has chosen a path.
Dispatched == up.pc \in {"hashing", "borrow", "large", "resolved"}
                 \/ (up.pc = "rejected" /\ up.err \notin {"eValidation", "eStat", "eStream"})

\* C23: for each source kind and every total size S, S < largeFileThreshold takes
\* the Direct path (a standard upload, startLargeFile never called) and
\* S >= largeFileThreshold the Partitioned path (startLargeFile called, no
\* standard upload), the boundary S = largeFileThreshold included.
C23_PathBySize ==
    Dispatched =>
        /\ up.size < up.o.largeFileThreshold => (up.pc # "large" /\ upc = "off")
        /\ up.size >= up.o.largeFileThreshold =>
               (up.pc = "large" /\ upc = "starting" /\ up.caller = 0 /\ up.attempts = 0)

C23_Witness ==
    /\ up.pc = "large"
    /\ up.o.kind = "stream"
    /\ up.size = up.o.largeFileThreshold
    /\ up.reads >= 2

\* C28: on the Direct path every upload attempt inside borrow sends a source
\* opened for that attempt, the source is destroyed when the attempt ends,
\* succeeded or failed, and once the upload call has settled no source opened for
\* an attempt is left undestroyed, however many attempts were made.
C28_AttemptSourcesDestroyed ==
    /\ \A c \in DOMAIN b :
           (up.caller = c /\ b[c].pc = "work") =>
               (up.data = up.made /\ up.live = {up.data} /\ up.attempts = up.made)
    /\ \A c \in DOMAIN b : (up.caller = c /\ b[c].pc # "work") => up.live = {}
    /\ up.pc \in {"resolved", "rejected"} => up.live = {}

C28_Witness ==
    /\ up.pc = "resolved"
    /\ up.made = MaxDirectFaults + 1
    /\ up.live = {}

\* The violations of the option constraints, as the options were passed.
Violates(o) ==
    \/ o.partSize # Absent /\ (o.partSize < MinPartSize \/ o.partSize > MaxPartSize)
    \/ o.partSize # Absent /\ o.largeFileThreshold # Absent
           /\ o.largeFileThreshold <= o.partSize
    \/ o.concurrency # Absent /\ o.concurrency < 1
    \/ ~o.bucketId
    \/ ~o.fileName
    \/ o.kind = "missing"

\* C29: a request that violates the option constraints fails before any I/O: the
\* call rejects, the data source is not read and no external call (authorize,
\* credential issuance, startLargeFile, upload) is made.
C29_InvalidOptionsFailBeforeIO ==
    (Violates(up.o) /\ up.pc \notin {"off", "call"}) =>
        /\ up.pc = "rejected"
        /\ up.err = "eValidation"
        /\ up.reads = 0 /\ up.stats = 0 /\ up.made = 0 /\ up.attempts = 0
        /\ upc = "off"
        /\ authorizing = 0
        /\ \A c \in DOMAIN b : b[c].pc = "idle"

C29_Witness ==
    /\ up.pc = "rejected"
    /\ up.err = "eValidation"
    /\ up.o.kind = "stream"
    /\ up.chunks # <<>>
    /\ up.o.bucketId /\ up.o.fileName /\ up.o.concurrency = 1
    /\ up.o.partSize = MinPartSize
    /\ up.o.largeFileThreshold = up.o.partSize

\* The number of parts of the adapter's source, ceil(S/P), and the length the
\* claim gives part k.
PartCount == Ceil(Len(ad.data), ad.partSize)
PartLength(k) ==
    IF k < PartCount THEN ad.partSize
    ELSE Len(ad.data) - (PartCount - 1) * ad.partSize

RECURSIVE LengthsUpTo(_)
LengthsUpTo(k) == IF k = 0 THEN 0 ELSE Len(ad.calls[k].buf) + LengthsUpTo(k - 1)

RECURSIVE PartsUpTo(_)
\* The contents of the parts of calls 1..k, in part-number order.
PartsUpTo(k) == IF k = 0 THEN <<>> ELSE PartsUpTo(k - 1) \o ad.calls[k].buf

\* C24: for a source of S bytes and part size P each adapter yields exactly
\* N = ceil(S/P) parts, numbered 1..N in the order yielded, each of length P
\* except possibly the last, the lengths adding up to S, and every next() call
\* after the N-th part resolves with undefined.
C24_PartsPartitionTheSource ==
    ad.kind # "off" =>
        /\ \A k \in DOMAIN ad.calls :
               /\ ad.calls[k].st = "part" =>
                      /\ k <= PartCount
                      /\ ad.calls[k].number = k
                      /\ Len(ad.calls[k].buf) = PartLength(k)
               /\ ad.calls[k].st = "undefined" => k > PartCount
               /\ (k > PartCount /\ SettledCall(ad.calls[k]) /\ ad.detail # "failed") =>
                      ad.calls[k].st = "undefined"
        /\ (Len(ad.calls) >= PartCount /\ \A k \in 1..PartCount : ad.calls[k].st = "part") =>
               LengthsUpTo(PartCount) = Len(ad.data)

C24_Witness ==
    /\ ad.kind = "stream"
    /\ PartCount >= 2
    /\ Len(ad.calls) = PartCount + 1
    /\ \A k \in 1..PartCount : ad.calls[k].st = "part"
    /\ ad.calls[PartCount + 1].st = "undefined"
    /\ Len(ad.calls[PartCount].buf) < ad.partSize

\* C25: for a stream source the contents of the parts, concatenated in
\* part-number order, are the source's bytes exactly: the bytes buffered during
\* lookahead first, nothing lost, repeated or out of place, the bytes of a chunk
\* beyond a part boundary opening the next part, also when a chunk spans more
\* than one whole part.
C25_StreamPartsAreTheSource ==
    ad.kind = "stream" =>
        /\ \A k \in DOMAIN ad.calls :
               (\A j \in 1..k : ad.calls[j].st \in {"hashing", "part", "rejected"}) =>
                   PartsUpTo(k) = SubSeq(ad.data, 1, Len(PartsUpTo(k)))
        /\ (Len(ad.calls) >= PartCount /\ \A k \in 1..PartCount : ad.calls[k].st = "part") =>
               PartsUpTo(PartCount) = ad.data

C25_Witness ==
    /\ ad.kind = "stream"
    /\ ad.nchunks = 1
    /\ PartCount >= 3
    /\ Len(ad.calls) >= PartCount
    /\ \A k \in 1..PartCount : ad.calls[k].st = "part"

\* What the buffer adapter yields on its k-th next() call for the same bytes and
\* part size: the part's content (<<>>: undefined).
BufferYield(k) ==
    IF k - 1 >= bufferTotal(St) THEN <<>>
    ELSE subarray(ad.data, (k - 1) * ad.partSize, k * ad.partSize)

\* C26: given the same bytes, partSize and largeFileThreshold the stream adapter
\* yields what the buffer adapter yields: the same number of parts and, for each
\* part number, the same content and hash, however the stream cuts its bytes
\* into chunks.
C26_StreamYieldsWhatBufferYields ==
    ad.kind = "stream" =>
        \A k \in DOMAIN ad.calls :
            /\ ad.calls[k].st = "part" =>
                   /\ ad.calls[k].number = k
                   /\ ad.calls[k].buf = BufferYield(k)
                   /\ ad.calls[k].hash = sha1(BufferYield(k))
            /\ ad.calls[k].st = "undefined" => BufferYield(k) = <<>>
            /\ (BufferYield(k) = <<>> /\ SettledCall(ad.calls[k])) =>
                   ad.calls[k].st = "undefined"

C26_Witness ==
    /\ ad.kind = "stream"
    /\ ad.lookahead > ad.threshold
    /\ ad.nchunks >= 2
    /\ ad.first % ad.partSize # 0
    /\ Len(ad.calls) = PartCount + 1
    /\ \A k \in 1..PartCount : ad.calls[k].st = "part"
    /\ ad.calls[PartCount + 1].st = "undefined"

\* C27: for the stream adapter, however many next() calls are outstanding, at
\* most one part assembly runs at a time and they run in call order: the k-th
\* call takes part number k, a call starts reading only once every earlier call
\* has settled, and a call that rejected does not make later calls reject.
C27_StreamCallsSerialized ==
    ad.kind = "stream" =>
        /\ Cardinality({k \in DOMAIN ad.calls : Running(ad.calls[k])}) <= 1
        /\ \A k \in DOMAIN ad.calls :
               /\ ad.calls[k].st \in {"reading", "hashing", "part"} => ad.calls[k].number = k
               /\ ad.calls[k].st # "queued" =>
                      \A j \in 1..(k - 1) : SettledCall(ad.calls[j])
               /\ (ad.calls[k].st = "rejected") => ad.calls[k].buf # <<>>

C27_Witness ==
    /\ ad.kind = "stream"
    /\ Len(ad.calls) >= 2
    /\ ad.calls[1].st = "rejected"
    /\ ad.calls[2].ahead = 1
    /\ ad.calls[2].st = "part"
    /\ ad.calls[2].number = 2

\* C31: when a partitioned upload fails and the cancelLargeFile call then fails
\* too, the upload call rejects with the cancel call's failure, not with the
\* error that caused the cancellation.
C31_CancelFailureMasksCause ==
    [][CancelFail => (upc' = "rejected" /\ uerr' = "eCancel" /\ uerr' # firstFail)]_vars

C31_Witness ==
    /\ upc = "rejected"
    /\ uerr = "eCancel"
    /\ firstFail \in PartErrors

\* C32: si.destroy() is called when a partitioned upload completes as well as
\* when it fails: every upload call that has settled after startLargeFile
\* succeeded has invoked it.
C32_DestroyOnEverySettle ==
    (Settled /\ uerr # "eStart") => destroyed >= 1

\* C33: every entry of a pool queue is a credential the issuing function
\* returned; no empty or undefined entry is ever enqueued, also when the issuing
\* call itself failed.
C33_QueueHoldsOnlyCredentials ==
    \A p \in DOMAIN queue : \A i \in 1..Len(queue[p]) :
        queue[p][i] # 0 /\ owner[queue[p][i]] = p

\* C34: no part-upload request is started once cancelLargeFile or
\* finishLargeFile has been called for the session.
C34_NoPartRequestAfterTermination ==
    [][(cancels > 0 \/ finishes > 0) =>
          \A c \in DOMAIN b :
              (b'[c].part # 0 /\ b'[c].pc = "work") => b[c].pc = "work"]_vars

\* The credentials issued for the session so far.
SessionCredentials == {t \in DOMAIN owner : owner[t] = FilePool}

\* C37: in a partitioned upload in which no attempt fails, the number of
\* credentials issued for the session never exceeds the number of part uploads
\* in flight at once, hence never exceeds concurrency.
C37_PoolBoundedByConcurrency ==
    (upc # "off" /\ faults = 0) => Cardinality(SessionCredentials) <= conc

C37_Witness ==
    /\ upc = "resolved"
    /\ faults = 0
    /\ conc = 2
    /\ nparts = 3
    /\ Cardinality(SessionCredentials) = 2

\* C38: every partitioned upload of a validated request has at least 2 parts:
\* largeFileThreshold > partSize and size >= largeFileThreshold give
\* ceil(size / partSize) >= 2.
C38_PartitionedHasTwoParts ==
    up.pc = "large" => Ceil(up.size, up.o.partSize) >= 2

C38_Witness ==
    /\ up.pc = "large"
    /\ up.o.kind = "file"
    /\ up.o.largeFileThreshold = up.o.partSize + 1
    /\ up.size = up.o.largeFileThreshold

\* C35: within one upload request si.destroy() is invoked at most once, also
\* when several parts fail for good or a part failure and a next() rejection
\* both occur.
C35_DestroyAtMostOnce ==
    destroyed <= 1

\* C36: every partitioned upload call eventually resolves or rejects, in every
\* interleaving of next() resolutions, part successes and part failures, when
\* every pending call settles.
C36_UploadSettles ==
    <>Settled

\* A part failed for good after a next() call had reported the end of the source.
C36_Witness ==
    /\ upc = "rejected"
    /\ available = NaN
    /\ finishes = 0
    /\ firstFail = "e403"
    /\ \E c \in DOMAIN b : b[c].pc = "ok"

====
